---- MODULE Spec2Model ----
(***************************************************************************)
(* Model of drivers/gpu/ion/ion_system_heap.c: the page-list ("system")    *)
(* heap and the physically contiguous ("system-contig") heap of the ion    *)
(* buffer allocator.  Machine words are WordBits wide (unsigned long, int  *)
(* and pointers have the same width, as on the 32-bit target), pages are   *)
(* 2^PAGE_SHIFT bytes.                                                     *)
(***************************************************************************)
EXTENDS Integers, Sequences, FiniteSets, TLC

\* ------------------------------------------------------------------------
\* Bounds of the model
\* ------------------------------------------------------------------------
WordBits == 4
PAGE_SHIFT == 2
NPages == 3
MaxOrphans == 1
MaxPgoff == 1

\* sizeof(void *) in kmalloc(n_pages * sizeof(void *))
SIZEOF_PTR == 4

\* ------------------------------------------------------------------------
\* Machine arithmetic
\* ------------------------------------------------------------------------
WordMod == 2 ^ WordBits
MaxWord == WordMod - 1
PAGE_SIZE == 2 ^ PAGE_SHIFT

Wrap(x) == x % WordMod

\* value of an unsigned word converted to int (same width, two's complement)
ToInt(x) == IF Wrap(x) >= WordMod \div 2 THEN Wrap(x) - WordMod ELSE Wrap(x)

\* PAGE_ALIGN(x) == (x + PAGE_SIZE - 1) & PAGE_MASK, in unsigned long
PAGE_ALIGN(x) == (Wrap(x + PAGE_SIZE - 1) \div PAGE_SIZE) * PAGE_SIZE

\* int n_pages = PAGE_ALIGN(size) / PAGE_SIZE;
NPagesOf(sz) == ToInt(PAGE_ALIGN(sz) \div PAGE_SIZE)

\* the mathematical page count ceil(size / PAGE_SIZE), without wrap-around
CeilPages(sz) == (sz + PAGE_SIZE - 1) \div PAGE_SIZE

\* ------------------------------------------------------------------------
\* Objects
\* ------------------------------------------------------------------------
Bufs == {"a", "b"}
NULL == 0
Pages == 1 .. NPages
Sizes == 1 .. MaxWord
HeapTypes == {"SYSTEM", "SYSTEM_CONTIG"}

\* page frame of the base of the contiguous block of buffer b (lowmem, outside
\* the page pool), and the frame k pages after it
BlockPfn(b) == IF b = "a" THEN 100 ELSE 200

\* struct page reference of a page frame number: pool pages are named by
\* their frame number
PfnToPage(pfn) == pfn

NoHeap == [ops |-> "none", type |-> "NONE"]
\* no description: the NULL struct sg_table pointer
NoTable == [live |-> FALSE, sgl_live |-> FALSE, nents |-> 0, sgl |-> << >>,
            freed |-> FALSE]
NoVma == [vm_start |-> 0, vm_end |-> 0, vm_flags |-> {}, vm_pgoff |-> 0]

VARIABLES
    env,         \* the callers of this behaviour and what they may do
    pc,          \* position of each caller
    heap_type,   \* heap->type of the heap the buffer was allocated from
    len,         \* the size argument of allocate
    size,        \* buffer->size
    priv_virt,   \* buffer->priv_virt
    page_list,   \* allocate: the local pointer page_list
    slots,       \* contents of the slot array the allocate call acquired
    i,           \* loop index of the running call
    ret,         \* return value of the last call
    held,        \* pages handed out by the page pool and not released
    kmem,        \* live kmalloc objects: <<buffer, kind>>
    acq,         \* pages acquired by the buffer's allocate call, in order
    rel,         \* pages released by the running / last call, in order
    klog,        \* kmalloc-level objects released by the running / last call
    ltable,      \* struct sg_table built by the running map_dma call
    sg_table,    \* the table buffer->sg_table points to (NoTable if NULL)
    orphan,      \* live sg tables no longer referenced by the buffer
    vaddr,       \* pages of the kernel mapping buffer->vaddr (<<>> if none)
    kmapped,     \* whether buffer->vaddr is a live kernel mapping
    vma,         \* the vm_area_struct passed to map_user
    uaddr,       \* map_user: next insertion address
    usize,       \* map_user: remaining length
    ptes,        \* map_user: <<address, page>> insertions into the vma
    remaps,      \* map_user: remap_pfn_range requests <<addr, pfn, length>>
    done,        \* operations completed on the buffer since allocate
    out,         \* values a call stores through its output parameters
    heap,        \* the struct ion_heap of each strategy (NoHeap if none)
    hret         \* return value of the last create call of each strategy

vars == << env, pc, heap_type, len, size, priv_virt, page_list, slots, i, ret,
           held, kmem, acq, rel, klog, ltable, sg_table, orphan, vaddr,
           kmapped, vma, uaddr, usize, ptes, remaps, done, out, heap, hret >>

allocVars == << heap_type, len, size, priv_virt, page_list, slots, acq >>
poolVars == << held, kmem >>
dmaVars == << ltable, sg_table, orphan >>
kernVars == << vaddr, kmapped >>
userVars == << vma, uaddr, usize, ptes, remaps, out >>
heapVars == << heap, hret >>

\* the operations of the table a caller may invoke on a valid buffer
AllOps == {"free", "phys", "map_dma", "unmap_dma", "map_kernel", "unmap_kernel",
           "map_user"}

\* e says who calls and what they pass: the callers, whether they map for
\* the device again without unmapping (remap), whether they pass ranges of
\* any length (raw), the operations they use and the sizes they request
InitEnv(e) ==
    /\ env = e
    /\ pc = [b \in Bufs |-> "none"]
    /\ heap_type = [b \in Bufs |-> "NONE"]
    /\ len = [b \in Bufs |-> 0]
    /\ size = [b \in Bufs |-> 0]
    /\ priv_virt = [b \in Bufs |-> "NULL"]
    /\ page_list = [b \in Bufs |-> "NULL"]
    /\ slots = [b \in Bufs |-> << >>]
    /\ i = [b \in Bufs |-> 0]
    /\ ret = [b \in Bufs |-> "none"]
    /\ held = {}
    /\ kmem = {}
    /\ acq = [b \in Bufs |-> << >>]
    /\ rel = [b \in Bufs |-> << >>]
    /\ klog = [b \in Bufs |-> << >>]
    /\ ltable = [b \in Bufs |-> NoTable]
    /\ sg_table = [b \in Bufs |-> NoTable]
    /\ orphan = [b \in Bufs |-> 0]
    /\ vaddr = [b \in Bufs |-> << >>]
    /\ kmapped = [b \in Bufs |-> FALSE]
    /\ vma = [b \in Bufs |-> NoVma]
    /\ uaddr = [b \in Bufs |-> 0]
    /\ usize = [b \in Bufs |-> 0]
    /\ ptes = [b \in Bufs |-> << >>]
    /\ remaps = [b \in Bufs |-> << >>]
    /\ done = [b \in Bufs |-> {}]
    /\ out = [b \in Bufs |-> << >>]
    /\ heap = [t \in HeapTypes |-> NoHeap]
    /\ hret = [t \in HeapTypes |-> "none"]

InitBuffers(callers, remap) ==
    InitEnv([callers |-> callers, remap |-> remap, raw |-> FALSE,
             ops |-> AllOps, sizes |-> Sizes])

Init == InitBuffers({"a"}, FALSE)

\* ------------------------------------------------------------------------
\* The operation tables and the heaps
\* ------------------------------------------------------------------------

\* lines 155-163
vmalloc_ops ==
    [allocate     |-> "ion_system_heap_allocate",
     free         |-> "ion_system_heap_free",
     phys         |-> "none",
     map_dma      |-> "ion_system_heap_map_dma",
     unmap_dma    |-> "ion_system_heap_unmap_dma",
     map_kernel   |-> "ion_system_heap_map_kernel",
     unmap_kernel |-> "ion_system_heap_unmap_kernel",
     map_user     |-> "ion_system_heap_map_user"]

\* lines 237-246
kmalloc_ops ==
    [allocate     |-> "ion_system_contig_heap_allocate",
     free         |-> "ion_system_contig_heap_free",
     phys         |-> "ion_system_contig_heap_phys",
     map_dma      |-> "ion_system_contig_heap_map_dma",
     unmap_dma    |-> "ion_system_heap_unmap_dma",
     map_kernel   |-> "ion_system_heap_map_kernel",
     unmap_kernel |-> "ion_system_heap_unmap_kernel",
     map_user     |-> "ion_system_contig_heap_map_user"]

OpsTable(name) == IF name = "vmalloc_ops" THEN vmalloc_ops ELSE kmalloc_ops

\* heap->ops->op of a live heap of strategy t is the function fn
HeapOp(t, op, fn) == heap[t] # NoHeap /\ OpsTable(heap[t].ops)[op] = fn

\* heaps are set up before the first buffer and torn down after the last
NoBuffers == \A b \in Bufs : pc[b] = "none"

\* buffers are served once every heap has been created and handed to its
\* caller
HeapsReady == \A t \in HeapTypes : heap[t] # NoHeap /\ hret[t] = "none"

\* the caller invokes buffer->heap->ops->op on a valid buffer and it is fn
Calls(b, op, fn) ==
    /\ pc[b] = "valid"
    /\ op \in env.ops
    /\ HeapsReady
    /\ heap_type[b] \in HeapTypes
    /\ HeapOp(heap_type[b], op, fn)

\* a page-list heap bound to the table of the contiguous heap
SystemHeapOps_Kmalloc == "kmalloc_ops"

\* line 172: heap->ops = &vmalloc_ops
SystemHeapOps == "vmalloc_ops"

\* lines 165-175: ion_system_heap_create
SystemHeapCreate ==
    /\ NoBuffers
    /\ heap["SYSTEM"] = NoHeap
    /\ hret["SYSTEM"] = "none"
    /\ \/ /\ heap' = [heap EXCEPT !["SYSTEM"] =
                         [ops |-> SystemHeapOps, type |-> "SYSTEM"]]
          /\ hret' = [hret EXCEPT !["SYSTEM"] = "heap"]
       \/ /\ hret' = [hret EXCEPT !["SYSTEM"] = "ERR_PTR(-ENOMEM)"]
          /\ UNCHANGED heap
    /\ UNCHANGED << env, pc, allocVars, i, ret, poolVars, rel, klog, dmaVars,
                    kernVars, userVars, done >>

\* lines 248-258: ion_system_contig_heap_create
ContigHeapCreate ==
    /\ NoBuffers
    /\ heap["SYSTEM_CONTIG"] = NoHeap
    /\ hret["SYSTEM_CONTIG"] = "none"
    /\ \/ /\ heap' = [heap EXCEPT !["SYSTEM_CONTIG"] =
                         [ops |-> "kmalloc_ops", type |-> "SYSTEM_CONTIG"]]
          /\ hret' = [hret EXCEPT !["SYSTEM_CONTIG"] = "heap"]
       \/ /\ hret' = [hret EXCEPT !["SYSTEM_CONTIG"] = "ERR_PTR(-ENOMEM)"]
          /\ UNCHANGED heap
    /\ UNCHANGED << env, pc, allocVars, i, ret, poolVars, rel, klog, dmaVars,
                    kernVars, userVars, done >>

\* lines 177-180 and 260-263: kfree(heap); the caller destroys a heap only
\* when no buffer of it is left
HeapDestroy(t) ==
    /\ NoBuffers
    /\ heap[t] # NoHeap
    /\ hret[t] = "none"
    /\ heap' = [heap EXCEPT ![t] = NoHeap]
    /\ UNCHANGED hret
    /\ UNCHANGED << env, pc, allocVars, i, ret, poolVars, rel, klog, dmaVars,
                    kernVars, userVars, done >>

\* the caller of create takes the returned pointer
HeapCreateReturn(t) ==
    /\ hret[t] # "none"
    /\ hret' = [hret EXCEPT ![t] = "none"]
    /\ UNCHANGED << env, pc, allocVars, i, ret, poolVars, rel, klog, dmaVars,
                    kernVars, userVars, done, heap >>

\* ------------------------------------------------------------------------
\* Primitives of the environment
\* ------------------------------------------------------------------------

\* kmalloc(bytes): a zero-byte request yields ZERO_SIZE_PTR and cannot fail;
\* any other request yields the object or NULL
KmallocOutcomes(bytes, obj) ==
    IF bytes = 0 THEN {"ZERO_SIZE_PTR"} ELSE {obj, "NULL"}

\* alloc_page(gfp_mask): a page not handed out yet, or NULL
AllocPageOutcomes == (Pages \ held) \cup {NULL}

\* the set of elements of a sequence
Range(s) == {s[k] : k \in 1 .. Len(s)}

\* s[from], s[from - 1], ..., s[1]: the order the unwind loop visits the slots
Downward(s, from) == [k \in 1 .. from |-> s[from + 1 - k]]

\* ------------------------------------------------------------------------
\* ion_system_heap_allocate
\* ------------------------------------------------------------------------

\* lines 30-35: compute n_pages and acquire the slot array
SystemAllocateCall(b, t, sz) ==
    /\ pc[b] = "none"
    /\ sz \in env.sizes
    /\ HeapsReady
    /\ HeapOp(t, "allocate", "ion_system_heap_allocate")
    /\ \E p \in KmallocOutcomes(Wrap(NPagesOf(sz) * SIZEOF_PTR), "page_list") :
          /\ page_list' = [page_list EXCEPT ![b] = p]
          /\ slots' = [slots EXCEPT ![b] =
                          [k \in 1 .. (IF p = "page_list" THEN NPagesOf(sz) ELSE 0)
                              |-> NULL]]
          /\ kmem' = IF p = "page_list" THEN kmem \cup {<<b, "page_list">>} ELSE kmem
    /\ heap_type' = [heap_type EXCEPT ![b] = heap[t].type]
    /\ len' = [len EXCEPT ![b] = sz]
    /\ size' = [size EXCEPT ![b] = 0]
    /\ priv_virt' = [priv_virt EXCEPT ![b] = "NULL"]
    /\ i' = [i EXCEPT ![b] = 0]
    /\ ret' = [ret EXCEPT ![b] = "none"]
    /\ acq' = [acq EXCEPT ![b] = << >>]
    /\ rel' = [rel EXCEPT ![b] = << >>]
    /\ klog' = [klog EXCEPT ![b] = << >>]
    /\ done' = [done EXCEPT ![b] = {}]
    /\ pc' = [pc EXCEPT ![b] = "alloc_loop"]
    /\ UNCHANGED << env, held, dmaVars, kernVars, userVars, heapVars >>

\* lines 37-41: one iteration of the acquisition loop.  The slot array
\* pointer is used without a NULL test: the store page_list[i] = ... through
\* a NULL pointer is a kernel fault.
SystemAllocateStep(b) ==
    /\ pc[b] = "alloc_loop"
    /\ i[b] < NPagesOf(len[b])
    /\ \E pg \in AllocPageOutcomes :
          /\ held' = IF pg = NULL THEN held ELSE held \cup {pg}
          /\ acq' = IF pg = NULL THEN acq ELSE [acq EXCEPT ![b] = Append(@, pg)]
          /\ IF page_list[b] = "NULL"
                THEN /\ pc' = [pc EXCEPT ![b] = "fault"]
                     /\ UNCHANGED << slots, i >>
                ELSE /\ slots' = [slots EXCEPT ![b][i[b] + 1] = pg]
                     /\ IF pg = NULL
                           THEN /\ pc' = [pc EXCEPT ![b] = "alloc_out"]
                                /\ UNCHANGED i
                           ELSE /\ i' = [i EXCEPT ![b] = @ + 1]
                                /\ UNCHANGED pc
    /\ UNCHANGED << env, heap_type, len, size, priv_virt, page_list, ret,
                    kmem, rel, klog, dmaVars, kernVars, userVars, done, heapVars >>

\* lines 43-44: the loop is over, publish the list
SystemAllocateDone(b) ==
    /\ pc[b] = "alloc_loop"
    /\ ~ (i[b] < NPagesOf(len[b]))
    /\ priv_virt' = [priv_virt EXCEPT ![b] = page_list[b]]
    /\ ret' = [ret EXCEPT ![b] = "0"]
    /\ pc' = [pc EXCEPT ![b] = "ret_allocate"]
    /\ UNCHANGED << env, heap_type, len, size, page_list, slots, i, held,
                    kmem, acq, rel, klog, dmaVars, kernVars, userVars, done, heapVars >>

\* an unwind that starts one slot too low
UnwindFrom_Skip(failed) == failed - 2

\* line 48: "failed on i, so go to i-1"
UnwindFrom(failed) == failed - 1

\* lines 46-54: release pages i-1 .. 0, then the slot array
SystemAllocateOut(b) ==
    /\ pc[b] = "alloc_out"
    /\ LET from == UnwindFrom(i[b])
           \* 0-based indices from .. 0 are slots from + 1 .. 1
           freed == IF from >= 0 THEN Downward(slots[b], from + 1) ELSE << >>
       IN  /\ rel' = [rel EXCEPT ![b] = @ \o freed]
           /\ held' = held \ Range(freed)
           /\ i' = [i EXCEPT ![b] = -1]
    /\ kmem' = kmem \ {<<b, "page_list">>}
    /\ klog' = [klog EXCEPT ![b] = Append(@, "page_list")]
    /\ ret' = [ret EXCEPT ![b] = "-ENOMEM"]
    /\ pc' = [pc EXCEPT ![b] = "ret_allocate"]
    /\ UNCHANGED << env, heap_type, len, size, priv_virt, page_list, slots,
                    acq, dmaVars, kernVars, userVars, done, heapVars >>

\* ------------------------------------------------------------------------
\* ion_system_contig_heap_allocate
\* ------------------------------------------------------------------------

\* lines 188-191: one zeroed block of len bytes
ContigAllocate(b, t, sz) ==
    /\ pc[b] = "none"
    /\ sz \in env.sizes
    /\ HeapsReady
    /\ HeapOp(t, "allocate", "ion_system_contig_heap_allocate")
    /\ \E p \in KmallocOutcomes(sz, "block") :
          /\ priv_virt' = [priv_virt EXCEPT ![b] = p]
          /\ kmem' = IF p = "block" THEN kmem \cup {<<b, "block">>} ELSE kmem
          /\ ret' = [ret EXCEPT ![b] = IF p = "NULL" THEN "-ENOMEM" ELSE "0"]
    /\ heap_type' = [heap_type EXCEPT ![b] = heap[t].type]
    /\ len' = [len EXCEPT ![b] = sz]
    /\ size' = [size EXCEPT ![b] = 0]
    /\ page_list' = [page_list EXCEPT ![b] = "NULL"]
    /\ slots' = [slots EXCEPT ![b] = << >>]
    /\ i' = [i EXCEPT ![b] = 0]
    /\ acq' = [acq EXCEPT ![b] = << >>]
    /\ rel' = [rel EXCEPT ![b] = << >>]
    /\ klog' = [klog EXCEPT ![b] = << >>]
    /\ done' = [done EXCEPT ![b] = {}]
    /\ pc' = [pc EXCEPT ![b] = "ret_allocate"]
    /\ UNCHANGED << env, held, dmaVars, kernVars, userVars, heapVars >>

\* ------------------------------------------------------------------------
\* Reading the backing through buffer->priv_virt
\* ------------------------------------------------------------------------

\* a slot array that is one object shared by all buffers
ReadSlot_Shared(b, k) ==
    IF priv_virt["a"] = "page_list" /\ k + 1 \in DOMAIN slots["a"]
       THEN slots["a"][k + 1]
       ELSE NULL

\* ((struct page **)buffer->priv_virt)[k]: the k-th pointer-sized word of the
\* object priv_virt points to.  A slot array holds the page references the
\* allocate call stored; a block obtained with kzalloc holds zero bytes.
ReadSlot(b, k) ==
    IF priv_virt[b] = "page_list" /\ k + 1 \in DOMAIN slots[b]
       THEN slots[b][k + 1]
       ELSE NULL

\* page_list[0 .. n - 1] as the shared routines read it
ReadList(b, n) == [k \in 1 .. n |-> ReadSlot(b, k - 1)]

\* kfree(p): releases the object p points to; kfree(NULL) and
\* kfree(ZERO_SIZE_PTR) do nothing
Kfree(b, p) == IF p \in {"NULL", "ZERO_SIZE_PTR"} THEN kmem ELSE kmem \ {<<b, p>>}
KfreeLog(p) == IF p \in {"NULL", "ZERO_SIZE_PTR"} THEN << >> ELSE <<p>>

\* ------------------------------------------------------------------------
\* ion_system_heap_free / ion_system_contig_heap_free
\* ------------------------------------------------------------------------

\* the caller releases the views of a buffer before it frees the buffer
MayFree(b) == sg_table[b] = NoTable /\ ~ kmapped[b]

\* a page count rounded down instead of up
FreeCount_Floor(b) == ToInt(size[b] \div PAGE_SIZE)

\* line 60: int n_pages = PAGE_ALIGN(buffer->size) / PAGE_SIZE;
FreeCount(b) == NPagesOf(size[b])

\* lines 57-66: release every page of the list, then the list
SystemFree(b) ==
    /\ Calls(b, "free", "ion_system_heap_free")
    /\ MayFree(b)
    /\ LET n_pages == FreeCount(b)
           freed == ReadList(b, n_pages)
       IN  /\ rel' = [rel EXCEPT ![b] = freed]
           /\ held' = held \ Range(freed)
           /\ i' = [i EXCEPT ![b] = n_pages]
    /\ kmem' = Kfree(b, priv_virt[b])
    /\ klog' = [klog EXCEPT ![b] = KfreeLog(priv_virt[b])]
    /\ ret' = [ret EXCEPT ![b] = "void"]
    /\ pc' = [pc EXCEPT ![b] = "ret_free"]
    /\ UNCHANGED << env, allocVars, dmaVars, kernVars, userVars, done,
                    heapVars >>

\* lines 194-197: kfree(buffer->priv_virt)
ContigFree(b) ==
    /\ Calls(b, "free", "ion_system_contig_heap_free")
    /\ MayFree(b)
    /\ kmem' = Kfree(b, priv_virt[b])
    /\ klog' = [klog EXCEPT ![b] = KfreeLog(priv_virt[b])]
    /\ rel' = [rel EXCEPT ![b] = << >>]
    /\ ret' = [ret EXCEPT ![b] = "void"]
    /\ pc' = [pc EXCEPT ![b] = "ret_free"]
    /\ UNCHANGED << env, allocVars, i, held, dmaVars, kernVars, userVars,
                    done, heapVars >>

\* ------------------------------------------------------------------------
\* ion_system_heap_map_dma / ion_system_contig_heap_map_dma / unmap_dma
\* ------------------------------------------------------------------------

\* vmalloc_to_page(addr) walks the kernel page tables of the vmalloc area.
\* Every pointer this file stores in priv_virt comes from kmalloc/kzalloc, so
\* the address is never a vmalloc address and the walk yields no page (NULL)
\* or whatever page the table entries found there describe.
IsVmallocAddr(p) == p \in {"vmalloc"}
VmallocToPageOutcomes(p) == IF IsVmallocAddr(p) THEN {NULL} ELSE {NULL} \cup Pages

\* sg_set_page(sg, page, len, offset)
SgEntry(page, length, offset) ==
    [page |-> page, length |-> length, offset |-> offset]

\* kzalloc(sizeof(struct sg_table)), sg_alloc_table(table, n), sg_free_table
\* (table) and kfree(table) as they change the description structure: live is
\* the structure itself, sgl_live its entry table
NewTable == [live |-> TRUE, sgl_live |-> FALSE, nents |-> 0, sgl |-> << >>,
             freed |-> FALSE]
SgAllocTable(t, n) ==
    [t EXCEPT !.sgl_live = TRUE, !.nents = n,
              !.sgl = [k \in 1 .. n |-> SgEntry(NULL, 0, 0)]]
\* an entry table that is not released
SgFreeTable_Noop(t) == t
SgFreeTable(t) == [t EXCEPT !.sgl_live = FALSE]
\* a description that is not released
KfreeTable_Noop(t) == t
KfreeTable(t) == [t EXCEPT !.live = FALSE, !.freed = TRUE]

\* lines 91 and 222: the entries the two map_dma routines write
FillEntries(t, entries) == [t EXCEPT !.sgl = entries]

\* an entry length rounded up to whole pages
ContigSgLength_Aligned(b) == PAGE_ALIGN(size[b])

\* line 222: the length of the single entry of a contiguous buffer
ContigSgLength(b) == size[b]

\* the calls that start with cleared per-call logs
StartCall(b) ==
    /\ rel' = [rel EXCEPT ![b] = << >>]
    /\ klog' = [klog EXCEPT ![b] = << >>]

\* the caller maps a buffer for a device when it has no device view; callers
\* that keep no such discipline (env.remap) may map again
MayMapDma(b) ==
    \/ sg_table[b] = NoTable
    \/ env.remap /\ orphan[b] < MaxOrphans

\* lines 68-80: the entry of ion_system_heap_map_dma up to its first
\* allocation, kzalloc(sizeof(struct sg_table), GFP_KERNEL): the description
\* cannot be allocated (79-80), or it is and the call goes on to
\* sg_alloc_table, which may sleep
SystemMapDma(b) ==
    /\ Calls(b, "map_dma", "ion_system_heap_map_dma")
    /\ MayMapDma(b)
    /\ \/ /\ ltable' = [ltable EXCEPT ![b] = NoTable]
          /\ ret' = [ret EXCEPT ![b] = "ERR_PTR(-ENOMEM)"]
          /\ pc' = [pc EXCEPT ![b] = "ret_map_dma"]
       \/ /\ ltable' = [ltable EXCEPT ![b] = NewTable]
          /\ ret' = [ret EXCEPT ![b] = "none"]
          /\ pc' = [pc EXCEPT ![b] = "map_dma_sgl"]
    /\ StartCall(b)
    /\ UNCHANGED << env, allocVars, i, poolVars, sg_table, orphan, kernVars,
                    userVars, done, heapVars >>

\* lines 81-100: sg_alloc_table(table, npages, GFP_KERNEL) and what follows
\* it.  The outcomes: the entry table cannot be allocated (82-83, err0); a
\* page lookup fails (87-89, err1, err0); every entry is filled (91-94).
SystemMapDmaTable(b) ==
    /\ pc[b] = "map_dma_sgl"
    /\ LET npages == NPagesOf(size[b])
           addr == priv_virt[b]
       IN  \/ /\ ltable' = [ltable EXCEPT ![b] = KfreeTable(@)]
              /\ klog' = [klog EXCEPT ![b] = <<"sg_table">>]
              /\ ret' = [ret EXCEPT ![b] = "ERR_PTR(-ENOMEM)"]
           \/ /\ \E k \in 1 .. npages : NULL \in VmallocToPageOutcomes(addr)
              /\ ltable' = [ltable EXCEPT ![b] =
                              KfreeTable(SgFreeTable(SgAllocTable(@, npages)))]
              /\ klog' = [klog EXCEPT ![b] = <<"sgl", "sg_table">>]
              /\ ret' = [ret EXCEPT ![b] = "ERR_PTR(-ENOMEM)"]
           \/ \E f \in [1 .. npages -> VmallocToPageOutcomes(addr) \ {NULL}] :
                 /\ ltable' = [ltable EXCEPT ![b] =
                                 FillEntries(SgAllocTable(@, npages),
                                             [k \in 1 .. npages |->
                                                 SgEntry(f[k], PAGE_SIZE, 0)])]
                 /\ klog' = [klog EXCEPT ![b] = << >>]
                 /\ ret' = [ret EXCEPT ![b] = "table"]
    /\ pc' = [pc EXCEPT ![b] = "ret_map_dma"]
    /\ UNCHANGED << env, allocVars, i, poolVars, rel, sg_table, orphan,
                    kernVars, userVars, done, heapVars >>

\* virt_to_phys(p), __phys_to_pfn(x) and virt_to_page(p) of the kmalloc
\* block of buffer b
VirtToPhys(b, p) == BlockPfn(b) * PAGE_SIZE
PhysToPfn(x) == x \div PAGE_SIZE
VirtToPage(b, p) == PfnToPage(PhysToPfn(VirtToPhys(b, p)))

\* lines 208-216: the entry of ion_system_contig_heap_map_dma up to its
\* first allocation, kzalloc(sizeof(struct sg_table), GFP_KERNEL)
ContigMapDma(b) ==
    /\ Calls(b, "map_dma", "ion_system_contig_heap_map_dma")
    /\ MayMapDma(b)
    /\ \/ /\ ltable' = [ltable EXCEPT ![b] = NoTable]
          /\ ret' = [ret EXCEPT ![b] = "ERR_PTR(-ENOMEM)"]
          /\ pc' = [pc EXCEPT ![b] = "ret_map_dma"]
       \/ /\ ltable' = [ltable EXCEPT ![b] = NewTable]
          /\ ret' = [ret EXCEPT ![b] = "none"]
          /\ pc' = [pc EXCEPT ![b] = "contig_map_dma_sgl"]
    /\ StartCall(b)
    /\ UNCHANGED << env, allocVars, i, poolVars, sg_table, orphan, kernVars,
                    userVars, done, heapVars >>

\* lines 217-225: sg_alloc_table(table, 1, GFP_KERNEL), then one entry for
\* the whole block
ContigMapDmaTable(b) ==
    /\ pc[b] = "contig_map_dma_sgl"
    /\ \/ /\ ltable' = [ltable EXCEPT ![b] = KfreeTable(@)]
          /\ klog' = [klog EXCEPT ![b] = <<"sg_table">>]
          /\ ret' = [ret EXCEPT ![b] = "ERR_PTR(-ENOMEM)"]
       \/ /\ ltable' = [ltable EXCEPT ![b] =
                          FillEntries(SgAllocTable(@, 1),
                                      << SgEntry(VirtToPage(b, priv_virt[b]),
                                                 ContigSgLength(b), 0) >>)]
          /\ klog' = [klog EXCEPT ![b] = << >>]
          /\ ret' = [ret EXCEPT ![b] = "table"]
    /\ pc' = [pc EXCEPT ![b] = "ret_map_dma"]
    /\ UNCHANGED << env, allocVars, i, poolVars, rel, sg_table, orphan,
                    kernVars, userVars, done, heapVars >>

\* lines 102-107: sg_free_table if the pointer is not NULL, then kfree.
UnmapDma(b) ==
    /\ Calls(b, "unmap_dma", "ion_system_heap_unmap_dma")
    /\ IF sg_table[b] # NoTable
          THEN /\ sg_table' = [sg_table EXCEPT ![b] = KfreeTable(SgFreeTable(@))]
               /\ klog' = [klog EXCEPT ![b] = <<"sgl", "sg_table">>]
          ELSE /\ UNCHANGED sg_table
               /\ klog' = [klog EXCEPT ![b] = << >>]
    /\ rel' = [rel EXCEPT ![b] = << >>]
    /\ ret' = [ret EXCEPT ![b] = "void"]
    /\ pc' = [pc EXCEPT ![b] = "ret_unmap_dma"]
    /\ UNCHANGED << env, allocVars, i, poolVars, ltable, orphan, kernVars,
                    userVars, done, heapVars >>

\* ------------------------------------------------------------------------
\* ion_system_heap_map_kernel / ion_system_heap_unmap_kernel
\* ------------------------------------------------------------------------

\* lines 109-116: vm_map_ram(page_list, n_pages, -1, PAGE_KERNEL) maps the
\* n_pages pages it finds in page_list, or fails and returns NULL
MapKernel(b) ==
    /\ Calls(b, "map_kernel", "ion_system_heap_map_kernel")
    /\ ~ kmapped[b]
    /\ \/ /\ out' = [out EXCEPT ![b] = ReadList(b, NPagesOf(size[b]))]
          /\ ret' = [ret EXCEPT ![b] = "vaddr"]
       \/ /\ out' = [out EXCEPT ![b] = << >>]
          /\ ret' = [ret EXCEPT ![b] = "NULL"]
    /\ StartCall(b)
    /\ pc' = [pc EXCEPT ![b] = "ret_map_kernel"]
    /\ UNCHANGED << env, allocVars, i, poolVars, dmaVars, kernVars, vma, uaddr,
                    usize, ptes, remaps, done, heapVars >>

\* lines 118-124: vm_unmap_ram(buffer->vaddr, n_pages)
UnmapKernel(b) ==
    /\ Calls(b, "unmap_kernel", "ion_system_heap_unmap_kernel")
    /\ kmapped[b]
    /\ kmapped' = [kmapped EXCEPT ![b] = FALSE]
    /\ out' = [out EXCEPT ![b] = << NPagesOf(size[b]) >>]
    /\ ret' = [ret EXCEPT ![b] = "void"]
    /\ StartCall(b)
    /\ pc' = [pc EXCEPT ![b] = "ret_unmap_kernel"]
    /\ UNCHANGED << env, allocVars, i, poolVars, dmaVars, vaddr, vma, uaddr,
                    usize, ptes, remaps, done, heapVars >>

\* ------------------------------------------------------------------------
\* ion_system_heap_map_user / ion_system_contig_heap_map_user
\* ------------------------------------------------------------------------

\* the ranges a caller passes: page aligned, not empty, inside the address
\* space
VmStart == PAGE_SIZE
VmEnds == {e \in VmStart + 1 .. MaxWord : e % PAGE_SIZE = 0}
Vmas == {[vm_start |-> VmStart, vm_end |-> e, vm_flags |-> {}, vm_pgoff |-> o] :
            e \in VmEnds, o \in 0 .. MaxPgoff}

\* ion_system_heap_map_user never reads vma->vm_pgoff ("+ pgoff <<
\* PAGE_SHIFT" is commented out at line 135): its ranges are taken with
\* offset 0
VmasNoOffset == {v \in Vmas : v.vm_pgoff = 0}

\* ranges of any length, as the length test of map_user meets them when the
\* caller does not keep to whole pages: empty, or ending inside a page
RawVmas == {[vm_start |-> VmStart, vm_end |-> e, vm_flags |-> {}, vm_pgoff |-> 0] :
               e \in VmStart .. MaxWord}

\* the ranges the callers of this behaviour pass to ion_system_heap_map_user
CallerVmas == IF env.raw THEN RawVmas ELSE VmasNoOffset

\* vm_insert_page(vma, addr, page): the single-page insertion of the address
\* space manager.  It is not part of this file; as the heap sees it, the
\* page is inserted or the insertion fails for want of resources, whatever
\* the address.
VmInsertPageOutcomes(v, addr) == {"0", "-ENOMEM"}

\* the entries of the page table after `page' was inserted at addr: an
\* entry that is there already is not a second entry
InsertEntry(q, addr, page) ==
    IF \E k \in 1 .. Len(q) : q[k] = << addr, page >>
       THEN q
       ELSE Append(q, << addr, page >>)

\* a length test that lets one page too many through
TooLong_OffByOne(us, n_pages) == us > Wrap((n_pages + 1) * PAGE_SIZE)

\* line 135: usize > (n_pages << PAGE_SHIFT), the right side an int converted
\* to unsigned long
TooLong(us, n_pages) == us > Wrap(n_pages * PAGE_SIZE)

\* line 142: the index the loop passes to page_list[]
InsertIndex(idx, step) == idx

\* lines 129-138: the length test
SystemMapUserCall(b, v) ==
    /\ Calls(b, "map_user", "ion_system_heap_map_user")
    /\ vma' = [vma EXCEPT ![b] = v]
    /\ uaddr' = [uaddr EXCEPT ![b] = v.vm_start]
    /\ usize' = [usize EXCEPT ![b] = Wrap(v.vm_end - v.vm_start)]
    /\ i' = [i EXCEPT ![b] = 0]
    /\ ptes' = [ptes EXCEPT ![b] = << >>]
    /\ IF TooLong(Wrap(v.vm_end - v.vm_start), NPagesOf(size[b]))
          THEN /\ ret' = [ret EXCEPT ![b] = "-EINVAL"]
               /\ pc' = [pc EXCEPT ![b] = "ret_map_user"]
          ELSE /\ ret' = [ret EXCEPT ![b] = "none"]
               /\ pc' = [pc EXCEPT ![b] = "map_user_loop"]
    /\ StartCall(b)
    /\ UNCHANGED << env, allocVars, poolVars, dmaVars, kernVars, remaps, out,
                    done, heapVars >>

\* an error path that takes the entries of this call out again
OnInsertError_Undo(q) == << >>

\* lines 143-144: if (ret) return ret; the entries made stay
OnInsertError(q) == q

\* a remaining length that is not counted down
NextUsize_Stuck(us) == us

\* line 147: usize -= PAGE_SIZE, on an unsigned long
NextUsize(us) == Wrap(us - PAGE_SIZE)

\* lines 139-152: one iteration of the do-while loop; i counts the
\* entries made, the index passed to page_list[] is InsertIndex.  The
\* argument page_list[i] is read before vm_insert_page is entered: with no
\* slot array behind priv_virt (ZERO_SIZE_PTR) the read faults.
SystemMapUserStep(b) ==
    /\ pc[b] = "map_user_loop"
    /\ IF priv_virt[b] # "page_list"
          THEN /\ pc' = [pc EXCEPT ![b] = "fault"]
               /\ UNCHANGED << ret, ptes, uaddr, usize, i, vma >>
          ELSE
       \E r \in VmInsertPageOutcomes(vma[b], uaddr[b]) :
          IF r # "0"
             THEN /\ ret' = [ret EXCEPT ![b] = r]
                  /\ pc' = [pc EXCEPT ![b] = "ret_map_user"]
                  /\ ptes' = [ptes EXCEPT ![b] = OnInsertError(@)]
                  /\ UNCHANGED << uaddr, usize, i, vma >>
             ELSE /\ ptes' = [ptes EXCEPT ![b] =
                                 InsertEntry(@, uaddr[b],
                                             ReadSlot(b, InsertIndex(0, i[b])))]
                  /\ uaddr' = [uaddr EXCEPT ![b] = Wrap(@ + PAGE_SIZE)]
                  /\ usize' = [usize EXCEPT ![b] = NextUsize(@)]
                  /\ i' = [i EXCEPT ![b] = Len(ptes'[b])]
                  /\ IF NextUsize(usize[b]) > 0
                        THEN UNCHANGED << ret, pc, vma >>
                        ELSE /\ vma' = [vma EXCEPT ![b].vm_flags =
                                           @ \cup {"VM_RESERVED"}]
                             /\ ret' = [ret EXCEPT ![b] = "0"]
                             /\ pc' = [pc EXCEPT ![b] = "ret_map_user"]
    /\ UNCHANGED << env, allocVars, poolVars, rel, klog, dmaVars, kernVars,
                    remaps, out, done, heapVars >>

\* remap_pfn_range(vma, addr, pfn, size, prot): maps the whole range or fails
RemapPfnRangeOutcomes == {"0", "-EINVAL", "-ENOMEM", "-EAGAIN"}

\* a first frame that leaves the page offset of the range out
RemapPfn_NoOffset(pfn, v) == pfn

\* line 232: pfn + vma->vm_pgoff
RemapPfn(pfn, v) == pfn + v.vm_pgoff

\* lines 227-235
ContigMapUser(b, v) ==
    /\ Calls(b, "map_user", "ion_system_contig_heap_map_user")
    /\ vma' = [vma EXCEPT ![b] = v]
    /\ LET pfn == PhysToPfn(VirtToPhys(b, priv_virt[b]))
       IN  remaps' = [remaps EXCEPT ![b] =
                         << << v.vm_start, RemapPfn(pfn, v),
                               Wrap(v.vm_end - v.vm_start) >> >>]
    /\ \E r \in RemapPfnRangeOutcomes : ret' = [ret EXCEPT ![b] = r]
    /\ StartCall(b)
    /\ pc' = [pc EXCEPT ![b] = "ret_map_user"]
    /\ UNCHANGED << env, allocVars, i, poolVars, dmaVars, kernVars, uaddr, usize,
                    ptes, out, done, heapVars >>

\* ------------------------------------------------------------------------
\* ion_system_contig_heap_phys
\* ------------------------------------------------------------------------

\* a reported length rounded up to whole pages
PhysLength_Aligned(b) == PAGE_ALIGN(size[b])

\* line 204: *len = buffer->size
PhysLength(b) == size[b]

\* lines 199-206
ContigPhys(b) ==
    /\ Calls(b, "phys", "ion_system_contig_heap_phys")
    /\ out' = [out EXCEPT ![b] = << VirtToPhys(b, priv_virt[b]), PhysLength(b) >>]
    /\ ret' = [ret EXCEPT ![b] = "0"]
    /\ StartCall(b)
    /\ pc' = [pc EXCEPT ![b] = "ret_phys"]
    /\ UNCHANGED << env, allocVars, i, poolVars, dmaVars, kernVars, vma, uaddr,
                    usize, ptes, remaps, done, heapVars >>

\* ------------------------------------------------------------------------
\* The caller: takes the result of a call and goes on
\* ------------------------------------------------------------------------

\* the arguments, locals and results of a call are gone once it has returned
ClearCall(b) ==
    /\ len' = [len EXCEPT ![b] = 0]
    /\ page_list' = [page_list EXCEPT ![b] = "NULL"]
    /\ i' = [i EXCEPT ![b] = 0]
    /\ ret' = [ret EXCEPT ![b] = "none"]
    /\ rel' = [rel EXCEPT ![b] = << >>]
    /\ klog' = [klog EXCEPT ![b] = << >>]
    /\ ltable' = [ltable EXCEPT ![b] = NoTable]
    /\ vma' = [vma EXCEPT ![b] = NoVma]
    /\ uaddr' = [uaddr EXCEPT ![b] = 0]
    /\ usize' = [usize EXCEPT ![b] = 0]
    /\ ptes' = [ptes EXCEPT ![b] = << >>]
    /\ remaps' = [remaps EXCEPT ![b] = << >>]
    /\ out' = [out EXCEPT ![b] = << >>]

\* the struct ion_buffer is gone
DropBuffer(b) ==
    /\ heap_type' = [heap_type EXCEPT ![b] = "NONE"]
    /\ size' = [size EXCEPT ![b] = 0]
    /\ priv_virt' = [priv_virt EXCEPT ![b] = "NULL"]
    /\ slots' = [slots EXCEPT ![b] = << >>]
    /\ acq' = [acq EXCEPT ![b] = << >>]
    /\ sg_table' = [sg_table EXCEPT ![b] = NoTable]
    /\ vaddr' = [vaddr EXCEPT ![b] = << >>]
    /\ kmapped' = [kmapped EXCEPT ![b] = FALSE]
    /\ done' = [done EXCEPT ![b] = {}]

\* after allocate: on success the buffer records the requested size and is
\* valid; on failure the buffer is dropped
AllocateReturn(b) ==
    /\ pc[b] = "ret_allocate"
    /\ ClearCall(b)
    /\ IF ret[b] = "0"
          THEN /\ size' = [size EXCEPT ![b] = len[b]]
               /\ pc' = [pc EXCEPT ![b] = "valid"]
               /\ UNCHANGED << heap_type, priv_virt, slots, acq, sg_table,
                               vaddr, kmapped, done >>
          ELSE /\ DropBuffer(b)
               /\ pc' = [pc EXCEPT ![b] = "none"]
    /\ UNCHANGED << env, poolVars, orphan, heapVars >>

\* after free the buffer is gone
FreeReturn(b) ==
    /\ pc[b] = "ret_free"
    /\ ClearCall(b)
    /\ DropBuffer(b)
    /\ pc' = [pc EXCEPT ![b] = "none"]
    /\ UNCHANGED << env, poolVars, orphan, heapVars >>

\* after map_dma: a returned table becomes buffer->sg_table (a table the
\* buffer still pointed to is no longer referenced by anything)
MapDmaReturn(b) ==
    /\ pc[b] = "ret_map_dma"
    /\ ClearCall(b)
    /\ IF ret[b] = "table"
          THEN /\ sg_table' = [sg_table EXCEPT ![b] = ltable[b]]
               /\ orphan' = [orphan EXCEPT ![b] =
                                IF sg_table[b].live THEN @ + 1 ELSE @]
               /\ done' = [done EXCEPT ![b] = @ \cup {"map_dma"}]
          ELSE UNCHANGED << sg_table, orphan, done >>
    /\ pc' = [pc EXCEPT ![b] = "valid"]
    /\ UNCHANGED << env, heap_type, size, priv_virt, slots, acq, poolVars,
                    kernVars, heapVars >>

\* after unmap_dma the buffer has no device view
UnmapDmaReturn(b) ==
    /\ pc[b] = "ret_unmap_dma"
    /\ ClearCall(b)
    /\ sg_table' = [sg_table EXCEPT ![b] = NoTable]
    /\ done' = [done EXCEPT ![b] =
                   IF "map_dma" \in @ THEN @ \cup {"unmap_dma"} ELSE @]
    /\ pc' = [pc EXCEPT ![b] = "valid"]
    /\ UNCHANGED << env, heap_type, size, priv_virt, slots, acq, poolVars,
                    orphan, kernVars, heapVars >>

\* after map_kernel: a returned address becomes buffer->vaddr
MapKernelReturn(b) ==
    /\ pc[b] = "ret_map_kernel"
    /\ ClearCall(b)
    /\ IF ret[b] = "vaddr"
          THEN /\ vaddr' = [vaddr EXCEPT ![b] = out[b]]
               /\ kmapped' = [kmapped EXCEPT ![b] = TRUE]
          ELSE UNCHANGED << vaddr, kmapped >>
    /\ pc' = [pc EXCEPT ![b] = "valid"]
    /\ UNCHANGED << env, heap_type, size, priv_virt, slots, acq, poolVars,
                    sg_table, orphan, done, heapVars >>

\* after unmap_kernel the buffer has no kernel address
UnmapKernelReturn(b) ==
    /\ pc[b] = "ret_unmap_kernel"
    /\ ClearCall(b)
    /\ vaddr' = [vaddr EXCEPT ![b] = << >>]
    /\ pc' = [pc EXCEPT ![b] = "valid"]
    /\ UNCHANGED << env, heap_type, size, priv_virt, slots, acq, poolVars,
                    sg_table, orphan, kmapped, done, heapVars >>

\* after map_user and phys the buffer is as before
PlainReturn(b) ==
    /\ pc[b] \in {"ret_map_user", "ret_phys"}
    /\ ClearCall(b)
    /\ pc' = [pc EXCEPT ![b] = "valid"]
    /\ UNCHANGED << env, heap_type, size, priv_virt, slots, acq, poolVars,
                    sg_table, orphan, kernVars, done, heapVars >>

Next ==
    \/ SystemHeapCreate
    \/ ContigHeapCreate
    \/ \E t \in HeapTypes : HeapDestroy(t)
    \/ \E t \in HeapTypes : HeapCreateReturn(t)
    \/ \E b \in env.callers :
          \/ \E t \in HeapTypes, sz \in Sizes : SystemAllocateCall(b, t, sz)
          \/ SystemAllocateStep(b)
          \/ SystemAllocateDone(b)
          \/ SystemAllocateOut(b)
          \/ \E t \in HeapTypes, sz \in Sizes : ContigAllocate(b, t, sz)
          \/ AllocateReturn(b)
          \/ SystemFree(b)
          \/ ContigFree(b)
          \/ FreeReturn(b)
          \/ SystemMapDma(b)
          \/ SystemMapDmaTable(b)
          \/ ContigMapDma(b)
          \/ ContigMapDmaTable(b)
          \/ MapDmaReturn(b)
          \/ UnmapDma(b)
          \/ UnmapDmaReturn(b)
          \/ MapKernel(b)
          \/ MapKernelReturn(b)
          \/ UnmapKernel(b)
          \/ UnmapKernelReturn(b)
          \/ \E v \in CallerVmas : SystemMapUserCall(b, v)
          \/ SystemMapUserStep(b)
          \/ \E v \in Vmas : ContigMapUser(b, v)
          \/ ContigPhys(b)
          \/ PlainReturn(b)

Spec == Init /\ [][Next]_vars

\* one caller with buffers of one or two pages that maps and unmaps for the
\* device in any order, also mapping again while a table is live
InitRemap ==
    InitEnv([callers |-> {"a"}, remap |-> TRUE, raw |-> FALSE,
             ops |-> {"free", "map_dma", "unmap_dma"},
             sizes |-> {1, PAGE_SIZE + 1}])

SpecRemap == InitRemap /\ [][Next]_vars

\* one caller that allocates, maps into a process with ranges of any length
\* and frees
InitRaw ==
    InitEnv([callers |-> {"a"}, remap |-> FALSE, raw |-> TRUE,
             ops |-> {"free", "map_user"}, sizes |-> Sizes])

SpecRaw == InitRaw /\ [][Next]_vars

\* a call that can take a step takes one
SpecRawFair == SpecRaw /\ WF_vars(Next)

\* two callers, each with a buffer of its own of one or two pages, running
\* allocate, map_dma, unmap_dma and free against the one page pool; their
\* steps interleave
InitTwo ==
    InitEnv([callers |-> Bufs, remap |-> FALSE, raw |-> FALSE,
             ops |-> {"free", "map_dma", "unmap_dma"},
             sizes |-> {PAGE_SIZE, PAGE_SIZE + 1}])

SpecTwo == InitTwo /\ [][Next]_vars

\* ------------------------------------------------------------------------
\* Properties
\* ------------------------------------------------------------------------

IsSystem(b) == heap_type[b] = "SYSTEM"
IsContig(b) == heap_type[b] = "SYSTEM_CONTIG"
NoDuplicates(q) == Cardinality(Range(q)) = Len(q)

\* the length of the destination range of the running map_user call
RangeLength(b) == vma[b].vm_end - vma[b].vm_start

\* C1: when a page acquisition of the page-list allocate fails at index i
\* (i = number of pages acquired so far; the slot array was acquired), the
\* call does not fault and returns -ENOMEM, the pages 0..i-1 and the slot
\* array have each been released exactly once, no page remains held and
\* buffer->priv_virt is not set.
C1_AllocateAtomicOnPageFailure ==
    \A b \in Bufs :
       /\ (IsSystem(b) /\ page_list[b] # "NULL") => pc[b] # "fault"
       /\ ( /\ pc[b] = "ret_allocate"
            /\ IsSystem(b)
            /\ (Len(acq[b]) < NPagesOf(len[b]) \/ ret[b] = "-ENOMEM") )
          =>
          /\ ret[b] = "-ENOMEM"
          /\ NoDuplicates(acq[b])
          /\ Len(rel[b]) = Len(acq[b])
          /\ Range(rel[b]) = Range(acq[b])
          /\ klog[b] = << "page_list" >>
          /\ << b, "page_list" >> \notin kmem
          /\ Range(acq[b]) \cap held = {}
          /\ (env.callers = {b} => held = {})
          /\ priv_virt[b] = "NULL"

\* C1 witness: the acquisition of page index 2 failed and the call returned
C1_Witness ==
    \E b \in Bufs :
       /\ pc[b] = "ret_allocate"
       /\ IsSystem(b)
       /\ ret[b] = "-ENOMEM"
       /\ Len(acq[b]) = 2
       /\ Len(rel[b]) = 2

\* C2: for every size > 0 of the machine-word range a successful page-list
\* allocate yields exactly ceil(size / PAGE_SIZE) pages, and the page count
\* the other operations compute from buffer->size is that same number.
C2_PageCountIsCeil ==
    \A b \in Bufs :
       /\ (pc[b] = "ret_allocate" /\ IsSystem(b) /\ ret[b] = "0")
          => /\ Len(slots[b]) = CeilPages(len[b])
             /\ NULL \notin Range(slots[b])
       /\ (pc[b] \notin {"none", "alloc_loop", "alloc_out", "fault",
                         "ret_allocate"} /\ IsSystem(b))
          => /\ Len(slots[b]) = CeilPages(size[b])
             /\ NPagesOf(size[b]) = CeilPages(size[b])
             /\ FreeCount(b) = CeilPages(size[b])

\* C3: page-list map_user over a range of exactly page_count * PAGE_SIZE
\* bytes whose insertions all succeed returns 0 having inserted the k-th page
\* of the list at base + k * PAGE_SIZE, for every k.
C3_MapUserInListOrder ==
    \A b \in Bufs :
       ( /\ pc[b] = "ret_map_user"
         /\ IsSystem(b)
         /\ RangeLength(b) = NPagesOf(size[b]) * PAGE_SIZE
         /\ ret[b] = "0" )
       => ptes[b] = [k \in 1 .. NPagesOf(size[b]) |->
                        << vma[b].vm_start + (k - 1) * PAGE_SIZE, slots[b][k] >>]

\* C4: page-list map_dma on a buffer of n pages returns a table of n entries
\* whose k-th entry references the k-th page of the list with length PAGE_SIZE
\* and offset 0.
C4_MapDmaEntriesAreListPages ==
    \A b \in Bufs :
       (pc[b] = "ret_map_dma" /\ IsSystem(b) /\ ret[b] = "table")
       => /\ ltable[b].nents = Len(slots[b])
          /\ ltable[b].sgl = [k \in 1 .. Len(slots[b]) |->
                                 SgEntry(slots[b][k], PAGE_SIZE, 0)]

\* C5: map_dma and unmap_dma leave the backing of a page-list buffer as
\* allocate built it, and the free that follows releases exactly the pages
\* allocate acquired, each once, and the slot array; no page, slot array,
\* entry table or description structure remains allocated.
C5_MapUnmapThenFreeReleasesAll ==
    \A b \in Bufs :
       /\ (IsSystem(b) /\ pc[b] \in {"valid", "ret_map_dma", "ret_unmap_dma"})
          => /\ slots[b] = acq[b]
             /\ Range(acq[b]) \subseteq held
             /\ (priv_virt[b] = "page_list" => << b, "page_list" >> \in kmem)
       /\ (IsSystem(b) /\ pc[b] = "ret_free")
          => /\ rel[b] = acq[b]
             /\ NoDuplicates(rel[b])
             /\ Range(acq[b]) \cap held = {}
             /\ (env.callers = {b} => held = {} /\ kmem = {})
             /\ << b, "page_list" >> \notin kmem
             /\ ~ sg_table[b].live /\ ~ sg_table[b].sgl_live
             /\ ~ ltable[b].live /\ ~ ltable[b].sgl_live
             /\ (~ env.remap => orphan[b] = 0)

\* C5 witness: a buffer of 3 pages was mapped for a device, unmapped and freed
C5_Witness ==
    \E b \in Bufs :
       /\ pc[b] = "ret_free"
       /\ IsSystem(b)
       /\ done[b] = {"map_dma", "unmap_dma"}
       /\ Len(acq[b]) = 3
       /\ Len(rel[b]) = 3

\* C6: page-list map_user over a range longer than n * PAGE_SIZE returns
\* -EINVAL, inserts no page and leaves the range (its flags) unchanged.
C6_MapUserTooLongRejected ==
    \A b \in Bufs :
       ( /\ pc[b] \in {"map_user_loop", "ret_map_user"}
         /\ IsSystem(b)
         /\ RangeLength(b) > NPagesOf(size[b]) * PAGE_SIZE )
       => /\ pc[b] = "ret_map_user"
          /\ ret[b] = "-EINVAL"
          /\ ptes[b] = << >>
          /\ remaps[b] = << >>
          /\ vma[b].vm_flags = {}

\* C6 witness: a range of two pages was refused for a buffer of one page
C6_Witness ==
    \E b \in Bufs :
       /\ pc[b] = "ret_map_user"
       /\ IsSystem(b)
       /\ NPagesOf(size[b]) = 1
       /\ RangeLength(b) = 2 * PAGE_SIZE
       /\ ret[b] = "-EINVAL"

\* C7: when the slot array cannot be acquired the page-list allocate returns
\* -ENOMEM, acquires no page and does not fault.
C7_SlotArrayFailureRecoverable ==
    \A b \in Bufs :
       ( /\ IsSystem(b)
         /\ pc[b] \in {"alloc_loop", "alloc_out", "fault", "ret_allocate"}
         /\ page_list[b] = "NULL" )
       => /\ pc[b] # "fault"
          /\ acq[b] = << >>
          /\ (pc[b] = "ret_allocate" => ret[b] = "-ENOMEM")

\* C8: a map_dma call that fails, under either strategy, holds nothing when it
\* returns: the entry table (if it was allocated) and then the description
\* structure have been released, and the buffer's device view is as before.
C8_MapDmaFailureLeaksNothing ==
    \A b \in Bufs :
       (pc[b] = "ret_map_dma" /\ ret[b] # "table")
       => /\ ret[b] = "ERR_PTR(-ENOMEM)"
          /\ ~ ltable[b].live
          /\ ~ ltable[b].sgl_live
          /\ klog[b] \in { << >>, << "sg_table" >>, << "sgl", "sg_table" >> }
          /\ (~ env.remap => sg_table[b] = NoTable /\ orphan[b] = 0)

\* C8 witness: a page lookup failed after the entry table was allocated
C8_Witness ==
    \E b \in Bufs :
       /\ pc[b] = "ret_map_dma"
       /\ ret[b] = "ERR_PTR(-ENOMEM)"
       /\ klog[b] = << "sgl", "sg_table" >>
       /\ ltable[b].nents > 0

\* C9: every successful map_dma of a contiguous buffer yields a table of
\* exactly one entry: the page of the block's base, the requested size as
\* length, offset 0.
C9_ContigMapDmaSingleEntry ==
    \A b \in Bufs :
       (pc[b] = "ret_map_dma" /\ IsContig(b) /\ ret[b] = "table")
       => /\ ltable[b].live /\ ltable[b].sgl_live
          /\ ltable[b].nents = 1
          /\ ltable[b].sgl = << SgEntry(PfnToPage(BlockPfn(b)), size[b], 0) >>

\* C9 witness: a contiguous buffer whose size is no page multiple was mapped
C9_Witness ==
    \E b \in Bufs :
       /\ pc[b] = "ret_map_dma"
       /\ IsContig(b)
       /\ ret[b] = "table"
       /\ size[b] = PAGE_SIZE + 1

\* the constituent pages of a buffer in backing order: the list entries of a
\* page-list buffer, the consecutive pages from the block's base of a
\* contiguous buffer
BackingPages(b) ==
    IF IsSystem(b)
       THEN slots[b]
       ELSE [k \in 1 .. CeilPages(size[b]) |-> PfnToPage(BlockPfn(b) + k - 1)]

\* C10: a successful map_kernel maps exactly the buffer's own pages in
\* backing order, under both strategies.
C10_MapKernelMapsOwnPages ==
    \A b \in Bufs :
       (pc[b] = "ret_map_kernel" /\ ret[b] = "vaddr")
       => out[b] = BackingPages(b)

\* C11: phys on a valid contiguous buffer returns 0 with the physical
\* address of the block's base and the requested size as length, releases
\* nothing and leaves the block allocated; the free of a contiguous buffer
\* releases the one block and no page.
C11_ContigPhysReportsBlock ==
    \A b \in Bufs :
       /\ (pc[b] = "ret_phys" /\ IsContig(b))
          => /\ ret[b] = "0"
             /\ out[b] = << BlockPfn(b) * PAGE_SIZE, size[b] >>
             /\ priv_virt[b] = "block"
             /\ <<b, "block">> \in kmem
             /\ klog[b] = << >>
             /\ rel[b] = << >>
       /\ (pc[b] = "ret_free" /\ IsContig(b))
          => /\ klog[b] = << "block" >>
             /\ rel[b] = << >>
             /\ <<b, "block">> \notin kmem

\* C11 witness: phys returned on a contiguous buffer of one page and a byte
C11_Witness ==
    \E b \in Bufs :
       /\ pc[b] = "ret_phys"
       /\ IsContig(b)
       /\ size[b] = PAGE_SIZE + 1
       /\ out[b][2] = PAGE_SIZE + 1

\* the scatter-gather descriptions of buffer b that are allocated: the one
\* buffer->sg_table points to and those no pointer is left to
LiveViews(b) == (IF sg_table[b].live THEN 1 ELSE 0) + orphan[b]

\* C12: between the calls of any sequence of map_dma and unmap_dma on one
\* buffer, at most one scatter-gather description of the buffer is live.
C12_AtMostOneLiveView ==
    \A b \in Bufs : pc[b] = "valid" => LiveViews(b) <= 1

\* the pages buffer b holds: acquired by its allocate and not released
HeldBy(b) == (Range(acq[b]) \ Range(rel[b])) \ {NULL}

\* what belongs to buffer b: its fields, its backing, its device view and
\* the position and locals of the call running on it
BufState(b) ==
    << pc[b], heap_type[b], len[b], size[b], priv_virt[b], page_list[b],
       slots[b], i[b], ret[b], acq[b], rel[b], klog[b], ltable[b],
       sg_table[b], orphan[b], vaddr[b], kmapped[b], vma[b], uaddr[b],
       usize[b], ptes[b], remaps[b], done[b], out[b] >>

C13_Disjoint ==
    \A b \in Bufs :
       /\ HeldBy(b) \subseteq held
       /\ \A c \in Bufs \ {b} : HeldBy(b) \cap HeldBy(c) = {}
       /\ (pc[b] = "valid" /\ IsSystem(b)) => Range(slots[b]) = HeldBy(b)
       /\ (pc[b] = "valid" /\ IsContig(b)) => <<b, "block">> \in kmem
       /\ pc[b] = "ret_free" => Range(rel[b]) \subseteq Range(acq[b])

C13_OneBufferPerStep ==
    \A b \in Bufs : \A c \in Bufs \ {b} :
       BufState(b)' # BufState(b) => BufState(c)' = BufState(c)

\* C13: with two callers on buffers of their own and one page pool, the
\* page sets of the two buffers are always disjoint and stay held whatever
\* the other caller does, a step on one buffer changes nothing of the
\* other (backing, device view), and a free releases only pages of its own
\* buffer.
C13_CallersDoNotInterfere == [] C13_Disjoint /\ [][C13_OneBufferPerStep]_vars

\* C13 witness: both callers hold page-list buffers and one of them has
\* just freed its own while the other's is mapped for the device
C13_Witness ==
    /\ pc["a"] = "ret_free" /\ IsSystem("a") /\ Len(rel["a"]) = 2
    /\ pc["b"] = "valid" /\ IsSystem("b") /\ sg_table["b"].live
    /\ HeldBy("b") # {}

\* C14: when an insertion of the page-list map_user fails after k
\* insertions succeeded, the call returns that insertion's error at once:
\* the k entries at base, base + PAGE_SIZE, ... stay, no entry follows, the
\* range was not finished and VM_RESERVED is not set.
C14_InsertFailureReturnsAtOnce ==
    \A b \in Bufs :
       (pc[b] = "ret_map_user" /\ IsSystem(b) /\ ret[b] \notin {"0", "-EINVAL"})
       => /\ ret[b] \in VmInsertPageOutcomes(vma[b], uaddr[b]) \ {"0"}
          /\ Len(ptes[b]) = i[b]
          /\ \A k \in 1 .. Len(ptes[b]) :
                ptes[b][k][1] = vma[b].vm_start + (k - 1) * PAGE_SIZE
          /\ uaddr[b] = vma[b].vm_start + i[b] * PAGE_SIZE
          /\ usize[b] = RangeLength(b) - i[b] * PAGE_SIZE
          /\ usize[b] > 0
          /\ "VM_RESERVED" \notin vma[b].vm_flags

\* C14 witness: the second insertion of a two-page range failed
C14_Witness ==
    \E b \in Bufs :
       /\ pc[b] = "ret_map_user"
       /\ IsSystem(b)
       /\ ret[b] = "-ENOMEM"
       /\ RangeLength(b) = 2 * PAGE_SIZE
       /\ Len(ptes[b]) = 1

\* C15: every call returns; its case of the page-list map_user: on a buffer
\* with a slot array, for a range of any length from 0 that passed the
\* length test, whole pages or not, and with the insertions free to succeed
\* every time, the loop reaches the return of the call.
C15_MapUserLoopReturns ==
    \A b \in Bufs :
       (pc[b] = "map_user_loop" /\ priv_virt[b] = "page_list")
          ~> (pc[b] = "ret_map_user")

\* C16: map_user of a contiguous buffer makes one remap_pfn_range request:
\* at the base of the range, over its whole length, from the frame of the
\* block's base plus the page offset of the range; it returns what the
\* request returned, inserts no single page, sets no flag and releases
\* nothing.
C16_ContigMapUserOneRemap ==
    \A b \in Bufs :
       (pc[b] = "ret_map_user" /\ IsContig(b))
       => /\ remaps[b] = << << vma[b].vm_start,
                               BlockPfn(b) + vma[b].vm_pgoff,
                               RangeLength(b) >> >>
          /\ ret[b] \in RemapPfnRangeOutcomes
          /\ ptes[b] = << >>
          /\ vma[b].vm_flags = {}
          /\ klog[b] = << >> /\ rel[b] = << >>
          /\ <<b, "block">> \in kmem

\* C16 witness: a contiguous buffer was mapped with page offset 1
C16_Witness ==
    \E b \in Bufs :
       /\ pc[b] = "ret_map_user"
       /\ IsContig(b)
       /\ ret[b] = "0"
       /\ vma[b].vm_pgoff = 1
       /\ remaps[b][1][2] = BlockPfn(b) + 1

\* the table and the kind each heap is constructed with
BoundOps(t) == IF t = "SYSTEM" THEN "vmalloc_ops" ELSE "kmalloc_ops"

C17_HeapsBound ==
    \A t \in HeapTypes :
       /\ heap[t] # NoHeap => heap[t] = [ops |-> BoundOps(t), type |-> t]
       /\ hret[t] = "ERR_PTR(-ENOMEM)" => heap[t] = NoHeap
       /\ hret[t] = "heap" => heap[t] # NoHeap

C17_HeapSteps ==
    \A t \in HeapTypes :
       /\ (heap[t] # NoHeap /\ heap'[t] # NoHeap) => heap'[t] = heap[t]
       /\ (heap[t] # NoHeap /\ heap'[t] = NoHeap)
          => /\ \A u \in HeapTypes \ {t} : heap'[u] = heap[u]
             /\ UNCHANGED << pc, allocVars, poolVars, dmaVars, kernVars, hret >>

\* C17: a heap carries the operation table and the kind it was constructed
\* with for as long as it exists; a create that cannot allocate the
\* descriptor returns ERR_PTR(-ENOMEM) and leaves no heap; destroy releases
\* the descriptor of its heap and nothing else (no buffer, page, block or
\* table, nor the other heap).
C17_HeapOpsFixed == [] C17_HeapsBound /\ [][C17_HeapSteps]_vars

\* C17 witness: the page-list heap was destroyed while a scatter-gather
\* table made under it is still allocated, and creating it again failed
C17_Witness ==
    /\ orphan["a"] = 1
    /\ hret["SYSTEM"] = "ERR_PTR(-ENOMEM)"
    /\ heap["SYSTEM"] = NoHeap
    /\ heap["SYSTEM_CONTIG"] # NoHeap

\* the pages a map_user call has mapped into the process: those of its
\* single-page entries and the frames of its successful remap requests,
\* one for every page the requested length touches
MappedPages(b) ==
    {ptes[b][k][2] : k \in 1 .. Len(ptes[b])}
    \cup (IF ret[b] = "0"
             THEN UNION {{PfnToPage(remaps[b][k][2] + j) :
                             j \in 0 .. CeilPages(remaps[b][k][3]) - 1} :
                         k \in 1 .. Len(remaps[b])}
             ELSE {})

\* C18: no map_user call, of either heap, for any range length and page
\* offset, maps a page that is not one of the buffer's own
\* ceil(size / PAGE_SIZE) backing pages.
C18_MapUserMapsOnlyOwnPages ==
    \A b \in Bufs :
       pc[b] = "ret_map_user" => MappedPages(b) \subseteq Range(BackingPages(b))

\* C19: for a range whose length L is a page multiple from 0 to
\* n_pages * PAGE_SIZE, a page-list map_user that returns 0 has made
\* exactly L / PAGE_SIZE entries, every one inside [base, base + L); a
\* range of length 0 gets no entry; and the remaining length usize never
\* wraps below zero (it never exceeds L).
C19_MapUserCountsDownToZero ==
    \A b \in Bufs :
       (/\ pc[b] \in {"map_user_loop", "ret_map_user"}
        /\ IsSystem(b)
        /\ RangeLength(b) % PAGE_SIZE = 0)
       => /\ usize[b] <= RangeLength(b)
          /\ RangeLength(b) = 0 => ptes[b] = << >>
          /\ (pc[b] = "ret_map_user" /\ ret[b] = "0")
             => /\ Len(ptes[b]) = RangeLength(b) \div PAGE_SIZE
                /\ \A k \in 1 .. Len(ptes[b]) :
                      /\ ptes[b][k][1] >= vma[b].vm_start
                      /\ ptes[b][k][1] < vma[b].vm_end

\* C20: unmap_dma on a buffer whose sg_table pointer is NULL releases
\* nothing and returns; on a buffer with a live description it releases
\* the entry table and then the description, each once, and both are gone
\* when it returns.
C20_UnmapDmaReleasesOnce ==
    \A b \in Bufs :
       pc[b] = "ret_unmap_dma"
       => /\ rel[b] = << >>
          /\ IF sg_table[b] = NoTable
                THEN klog[b] = << >>
                ELSE /\ klog[b] = << "sgl", "sg_table" >>
                     /\ sg_table[b].freed
                     /\ ~ sg_table[b].live
                     /\ ~ sg_table[b].sgl_live

\* C20 witness: unmap_dma returned after releasing a description of two
\* entries
C20_Witness ==
    \E b \in Bufs :
       /\ pc[b] = "ret_unmap_dma"
       /\ sg_table[b].freed
       /\ sg_table[b].nents = 2
       /\ klog[b] = << "sgl", "sg_table" >>

====
